---- MODULE Spec2Model ----
(***************************************************************************)
(* Model of AIAutomationOrchestrator (automation_scripts/orchestrator.js   *)
(* and its "fixed version", which share the dispatcher code line by line). *)
(*                                                                         *)
(* One step of the model is one turn of the Node.js event loop: a          *)
(* macrotask (an API call, a child-process event, a timer) runs to         *)
(* completion, and the continuation of an `await` whose promise has been   *)
(* settled runs before any other macrotask (NoMicrotask guards that).      *)
(*                                                                         *)
(* The orchestrator is one program; the specifications differ in what its  *)
(* surroundings do.  Spec: requests, scheduler ticks and stop_all, probes  *)
(* that end before their deadline.  SpecRetry: requests with several retry *)
(* ceilings.  SpecOrder: requests with several priorities.  SpecOptions:   *)
(* requests whose options are left out or 0.  SpecReports: the probes'     *)
(* report files.  SpecTimeout: probes that miss the deadline.  SpecStart:  *)
(* init and startScheduler under every configuration file.  SpecDashboard: *)
(* the messages of a connected dashboard.  SpecStatus and SpecReport:      *)
(* getStatus and generateReport over the report store.  SpecLive: requests *)
(* that nobody stops, with children that exit and timers that fire.        *)
(* SpecControl: a dashboard that also sends get_status and messages the    *)
(* handler has no branch for.                                              *)
(***************************************************************************)
EXTENDS Integers, Sequences, FiniteSets, TLC

(* ------------------------------ bounds --------------------------------- *)
\* number of task ids, and of queueTask calls explored when requests differ
\* in priority only
MaxTasks == 3
\* number of queueTask calls explored otherwise
MaxRequests == 2
\* number of those calls that come from the scheduler's interval callbacks
MaxTicks == 1

\* last value of the clock; the clock starts at Epoch, just below a power of
\* ten, so that the decimal length of Date.now() grows while it runs
MaxStamp == 11
\* number of files probes write into reportsDir
MaxFiles == 3
\* number of generateReport calls
MaxReportCalls == 2

(* ------------------------- program constants --------------------------- *)
Epoch == 8
DefaultMaxConcurrentTasks == 3
DefaultPriority == 5
DefaultMaxRetries == 3
SchedulerPriority == 3

KnownTypes == {"health", "security", "performance", "content", "visual", "all"}

\* the schedule table loadConfig falls back to
DefaultScheduling ==
    [healthCheck      |-> [interval |-> 300,   enabled |-> TRUE],
     securityScan     |-> [interval |-> 3600,  enabled |-> TRUE],
     performanceTest  |-> [interval |-> 1800,  enabled |-> TRUE],
     contentAnalysis  |-> [interval |-> 7200,  enabled |-> TRUE],
     visualRegression |-> [interval |-> 86400, enabled |-> TRUE]]

\* the schedule table of automation_config/config.json
FileScheduling ==
    [healthCheck      |-> [enabled |-> TRUE, interval |-> 300,   priority |-> 1],
     securityScan     |-> [enabled |-> TRUE, interval |-> 3600,  priority |-> 2],
     performanceTest  |-> [enabled |-> TRUE, interval |-> 1800,  priority |-> 3],
     contentAnalysis  |-> [enabled |-> TRUE, interval |-> 7200,  priority |-> 4],
     visualRegression |-> [enabled |-> TRUE, interval |-> 86400, priority |-> 5]]

\* a table without entries, standing for `undefined`
NoScheduling == [k \in {} |-> [enabled |-> FALSE]]

\* this.config = null
NullConfig == [loaded |-> FALSE, hasScheduling |-> FALSE, scheduling |-> NoScheduling]

\* `{}`, the status object before any field is set
NoStatus == [k \in {} |-> 0]

\* values that are not numbers: undefined, the placeholder '--', the string
\* 'undefinedms', and the character '.' (which sorts below every digit)
Undefined == -1
Placeholder == -2
UndefinedMs == -3
Dot == -1
\* the string `<n>ms` is kept apart from the number n as MsBase + n
MsBase == 1000

(* ------------------------------ inputs --------------------------------- *)
\* orchestrator_config.json: not there; not JSON; JSON without `scheduling`;
\* JSON with a schedule table
AbsentFile == [kind |-> "absent", hasScheduling |-> FALSE, scheduling |-> NoScheduling]
MalformedFile == [kind |-> "malformed", hasScheduling |-> FALSE, scheduling |-> NoScheduling]
NoTableFile == [kind |-> "json", hasScheduling |-> FALSE, scheduling |-> NoScheduling]
TableFile(tbl) == [kind |-> "json", hasScheduling |-> TRUE, scheduling |-> tbl]

\* entries an operator switches off in the table of config.json
SwitchedOff == {{}, {"securityScan", "contentAnalysis", "visualRegression"}}

\* tbl with the entries of off disabled
Disable(tbl, off) ==
    [k \in DOMAIN tbl |-> IF k \in off THEN [tbl[k] EXCEPT !.enabled = FALSE] ELSE tbl[k]]

ConfigFiles ==
    {MalformedFile, NoTableFile} \cup
    { TableFile(Disable(FileScheduling, off)) : off \in SwitchedOff }

\* task types handed to queueTask by callers (dashboard "run", CLI "run"):
\* one the execution backend knows and one it does not
RequestedTypes == {"health", "bogus"}

\* `{}`, the default of queueTask's options parameter
NoOptions == [k \in {} |-> 0]

\* options bags handed to queueTask
RequestOptions == { [maxRetries |-> 1] }
RetryOptions == { [maxRetries |-> r] : r \in {1, 2} }
PriorityOptions ==
    { [maxRetries |-> 1] } \cup { [priority |-> p, maxRetries |-> 1] : p \in {1, 3} }
\* options left out, given as 0, given as another number
GivenOptions ==
    { NoOptions, [maxRetries |-> 0], [priority |-> 0, maxRetries |-> 1],
      [priority |-> 2, maxRetries |-> 1] }

\* what a probe leaves in a report file: text that is not JSON, or an array
\* whose first element has or lacks the fields getStatus looks for
Payload(score, loadTime, issues) ==
    [valid |-> TRUE, score |-> score, loadTime |-> loadTime, issues |-> issues]
Unparsable ==
    [valid |-> FALSE, score |-> Undefined, loadTime |-> Undefined, issues |-> Undefined]
StatusPayloads ==
    [performance |-> {Payload(50, 120, Undefined), Payload(70, 120, Undefined),
                      Payload(60, 120, Undefined),
                      Payload(Undefined, Undefined, Undefined), Unparsable},
     security    |-> {Payload(80, Undefined, 2),
                      Payload(Undefined, Undefined, Undefined)}]
ReportPayloads ==
    [performance |-> {Payload(60, 120, Undefined), Unparsable},
     security    |-> {Payload(80, Undefined, 2)}]

TaskIds == 1..MaxTasks

NoTask == [type |-> "", options |-> NoOptions, priority |-> 0, retryCount |-> 0,
           maxRetries |-> 0]

VARIABLES
    task,               \* task descriptors by id (objects shared by reference)
    nextId,             \* next id generateTaskId hands out
    taskQueue,          \* this.taskQueue: sequence of task ids
    runningTasks,       \* this.runningTasks: key set of the Map
    maxConcurrentTasks, \* this.maxConcurrentTasks
    exec,               \* per task: state of the promise its processQueue call awaits
    timeoutTimers,      \* pending executeTask timeout timers, one per attempt
    retryTimers,        \* pending 5 s retry timers, in creation order
    reports,            \* files the probe processes wrote into reportsDir
    attempts,           \* per task: number of executeTask calls
    startedEv,          \* per task: taskStarted events emitted
    completedEv,        \* per task: taskCompleted events emitted
    failedEv,           \* per task: taskFailed events emitted
    configFile,         \* content of automation_config/orchestrator_config.json
    config,             \* this.config
    intervals,          \* task types with a setInterval armed by startScheduler
    scheduler,          \* how the call of startScheduler ended
    wsLog,              \* the {type: 'log'} frames sent to the dashboard
    wsStatus,           \* the payloads of the {type: 'status'} frames sent
    wsDropped,          \* kinds of messages the socket handler has dropped
    closing,            \* killed children whose 'close' event is still to come
    reportsDir,         \* files of reportsDir by name and content
    now,                \* Date.now()
    status,             \* what the last getStatus call returned
    compiled            \* per generateReport call, in call order: `reports` of
                        \* the result, and the probe reports the store held

\* state of the start-up, of the dashboard socket and of the report store
startVars == <<configFile, config, intervals, scheduler>>
storeVars == <<reportsDir, now, status, compiled>>
socketVars == <<wsStatus, wsDropped>>

vars == <<task, nextId, taskQueue, runningTasks, maxConcurrentTasks, exec,
          timeoutTimers, retryTimers, reports, attempts, startedEv,
          completedEv, failedEv, configFile, config, intervals, scheduler, wsLog,
          wsStatus, wsDropped, closing, reportsDir, now, status, compiled>>

Range(s) == { s[i] : i \in 1..Len(s) }

(* ------------------------------ helpers -------------------------------- *)

\* JavaScript `v || d` on an optional numeric option: undefined and 0 are falsy
OrDefault(options, key, d) ==
    IF key \in DOMAIN options /\ options[key] # 0 THEN options[key] ELSE d

\* the descriptor queueTask builds
NewTask(taskType, options) ==
    [type       |-> taskType,
     options    |-> options,
     priority   |-> OrDefault(options, "priority", DefaultPriority),
     retryCount |-> 0,
     maxRetries |-> OrDefault(options, "maxRetries", DefaultMaxRetries)]

\* faulty comparators: descending order; ties reported as "after"
ComesAfterDescending(tk, a, b) == tk[b].priority - tk[a].priority > 0
ComesAfterOrEqual(tk, a, b) == tk[a].priority - tk[b].priority >= 0

\* comparator of taskQueue.sort: a goes after b iff a.priority - b.priority > 0
ComesAfter(tk, a, b) == tk[a].priority - tk[b].priority > 0

\* Array.prototype.sort is stable: an element moves left only past elements
\* the comparator puts strictly after it
RECURSIVE InsertSorted(_, _, _)
InsertSorted(tk, sorted, t) ==
    IF sorted = <<>> THEN <<t>>
    ELSE LET last == sorted[Len(sorted)] IN
         IF ComesAfter(tk, last, t)
         THEN Append(InsertSorted(tk, SubSeq(sorted, 1, Len(sorted) - 1), t), last)
         ELSE Append(sorted, t)

RECURSIVE SortQueue(_, _)
SortQueue(tk, q) ==
    IF q = <<>> THEN <<>>
    ELSE InsertSorted(tk, SortQueue(tk, SubSeq(q, 1, Len(q) - 1)), q[Len(q)])

\* faulty re-insertion: push instead of unshift
UnshiftAtBack(q, t) == Append(q, t)

\* faulty retry: the task is put into the queue twice
UnshiftTwice(q, t) == <<t, t>> \o q

\* taskQueue.unshift(task)
Unshift(q, t) == <<t>> \o q

\* faulty guard: > for >=
DispatchBlockedOffByOne(r, q) == Cardinality(r) > maxConcurrentTasks \/ Len(q) = 0

\* faulty early return: one running task is enough to block
DispatchBlockedWhenBusy(r, q) == Cardinality(r) >= 1 \/ Len(q) = 0

\* first line of processQueue: the early return
DispatchBlocked(r, q) == Cardinality(r) >= maxConcurrentTasks \/ Len(q) = 0

\* faulty retry test: <= for <
ShouldRetryOffByOne(tk) == tk.retryCount <= tk.maxRetries

\* the retry test of the catch block
ShouldRetry(tk) == tk.retryCount < tk.maxRetries

\* faulty handler: the entry is left in the Map
DeleteNothing(r, t) == r

\* this.runningTasks.delete(taskId)
Delete(r, t) == r \ {t}

\* faulty loop: stops after the first entry
DeleteFirstOnly(r) ==
    IF r = {} THEN {} ELSE r \ {CHOOSE x \in r : TRUE}

\* for (const [taskId, task] of this.runningTasks) this.runningTasks.delete(taskId)
RECURSIVE DeleteAll(_)
DeleteAll(r) ==
    IF r = {} THEN {}
    ELSE LET id == CHOOSE x \in r : TRUE IN DeleteAll(r \ {id})

\* the continuation of some `await this.executeTask(task)` is due
NoMicrotask == \A t \in TaskIds : exec[t] \notin {"resolved", "rejected"}

(* --------------------------- processQueue ------------------------------ *)

\* executeTask up to the point where it returns its promise: an unknown type
\* rejects at once, a known one spawns the child and arms the timeout timer
ExecuteTask(t, tk, ex) ==
    IF tk[t].type \in KnownTypes
    THEN /\ exec' = [ex EXCEPT ![t] = "pending"]
         /\ timeoutTimers' = timeoutTimers \cup {[id |-> t, attempt |-> attempts[t] + 1]}
    ELSE /\ exec' = [ex EXCEPT ![t] = "rejected"]
         /\ timeoutTimers' = timeoutTimers

\* processQueue up to its await, run on queue q, running set r, descriptors
\* tk and promise states ex as the caller left them
ProcessQueue(q, r, tk, ex) ==
    IF DispatchBlocked(r, q)
    THEN /\ taskQueue' = q
         /\ runningTasks' = r
         /\ exec' = ex
         /\ UNCHANGED <<attempts, startedEv, timeoutTimers>>
    ELSE LET t == Head(q) IN
         /\ taskQueue' = Tail(q)
         /\ runningTasks' = r \cup {t}
         /\ startedEv' = [startedEv EXCEPT ![t] = @ + 1]
         /\ attempts' = [attempts EXCEPT ![t] = @ + 1]
         /\ ExecuteTask(t, tk, ex)

(* ------------------------------ actions -------------------------------- *)

\* the constructor's state. maxConcurrentTasks is a plain public field that
\* the constructor sets to 3 and nothing else writes; an embedding program
\* lowers it before use, so every value up to the default is explored
Init ==
    /\ task = [t \in TaskIds |-> NoTask]
    /\ nextId = 1
    /\ taskQueue = <<>>
    /\ runningTasks = {}
    /\ maxConcurrentTasks \in 1..DefaultMaxConcurrentTasks
    /\ exec = [t \in TaskIds |-> "none"]
    /\ timeoutTimers = {}
    /\ retryTimers = <<>>
    /\ reports = {}
    /\ attempts = [t \in TaskIds |-> 0]
    /\ startedEv = [t \in TaskIds |-> 0]
    /\ completedEv = [t \in TaskIds |-> 0]
    /\ failedEv = [t \in TaskIds |-> 0]
    /\ configFile = AbsentFile
    /\ config = NullConfig
    /\ intervals = {}
    /\ scheduler = "off"
    /\ wsLog = {}
    /\ wsStatus = {}
    /\ wsDropped = {}
    /\ closing = {}
    /\ reportsDir = {}
    /\ now = Epoch
    /\ status = NoStatus
    /\ compiled = <<>>

\* queueTask(taskType, options)
QueueTask(taskType, options) ==
    /\ NoMicrotask
    /\ nextId <= MaxTasks
    /\ LET tk == [task EXCEPT ![nextId] = NewTask(taskType, options)] IN
       /\ task' = tk
       /\ nextId' = nextId + 1
       /\ ProcessQueue(SortQueue(tk, Append(taskQueue, nextId)), runningTasks, tk, exec)
    /\ UNCHANGED <<maxConcurrentTasks, retryTimers, reports, completedEv,
                   failedEv>>
    /\ UNCHANGED <<startVars, storeVars>>
    /\ UNCHANGED <<socketVars, closing>>

\* a call of queueTask from outside the orchestrator
Enqueue ==
    /\ nextId <= MaxRequests
    /\ \E ty \in RequestedTypes, o \in RequestOptions : QueueTask(ty, o)
    /\ UNCHANGED wsLog

\* the same, with a choice of retry ceilings
EnqueueRetrying ==
    /\ nextId <= MaxRequests
    /\ \E ty \in RequestedTypes, o \in RetryOptions : QueueTask(ty, o)
    /\ UNCHANGED wsLog

\* the same, with options left out or given, 0 included
EnqueueGiven ==
    /\ nextId <= MaxRequests
    /\ \E ty \in RequestedTypes, o \in GivenOptions : QueueTask(ty, o)
    /\ UNCHANGED wsLog

\* the same, with priorities
EnqueuePrioritised ==
    /\ \E o \in PriorityOptions : QueueTask("health", o)
    /\ UNCHANGED wsLog

\* one firing of a setInterval callback armed by startScheduler
SchedulerTick ==
    \E ty \in DOMAIN DefaultScheduling :
        /\ DefaultScheduling[ty].enabled
        /\ nextId <= MaxRequests
        /\ Cardinality({t \in TaskIds : task[t].type \in DOMAIN DefaultScheduling}) < MaxTicks
        /\ QueueTask(ty, [priority |-> SchedulerPriority])
        /\ UNCHANGED wsLog

\* the probe process writes its report file while it runs
ChildWritesReport(t) ==
    /\ NoMicrotask
    /\ exec[t] = "pending"
    /\ \A f \in reports : f.by # t
    /\ reports' = reports \cup {[type |-> task[t].type, by |-> t]}
    /\ UNCHANGED <<task, nextId, taskQueue, runningTasks, maxConcurrentTasks,
                   exec, timeoutTimers, retryTimers, attempts, startedEv,
                   completedEv, failedEv>>
    /\ UNCHANGED <<startVars, wsLog, storeVars>>
    /\ UNCHANGED <<socketVars, closing>>

\* child 'close' with exit code 0 resolves, any other code (or 'error') rejects
ChildClose(t, ok) ==
    /\ NoMicrotask
    /\ exec[t] = "pending"
    /\ exec' = [exec EXCEPT ![t] = IF ok THEN "resolved" ELSE "rejected"]
    /\ UNCHANGED <<task, nextId, taskQueue, runningTasks, maxConcurrentTasks,
                   timeoutTimers, retryTimers, reports, attempts, startedEv,
                   completedEv, failedEv>>
    /\ UNCHANGED <<startVars, wsLog, storeVars>>
    /\ UNCHANGED <<socketVars, closing>>

\* faulty timer: it fires without rejecting the promise
TimeoutFiresSilently(tm) ==
    /\ NoMicrotask
    /\ tm \in timeoutTimers
    /\ timeoutTimers' = timeoutTimers \ {tm}
    /\ UNCHANGED <<task, nextId, taskQueue, runningTasks, maxConcurrentTasks,
                   exec, retryTimers, reports, attempts, startedEv,
                   completedEv, failedEv, startVars, wsLog, storeVars>>
    /\ UNCHANGED <<socketVars, closing>>

\* the attempt the timer tm was armed for is still awaiting its child
Live(tm) == exec[tm.id] = "pending" /\ attempts[tm.id] = tm.attempt

\* faulty timer: it rejects whatever attempt of the task is in flight
TimeoutFiresOnAnyAttempt(tm) ==
    /\ NoMicrotask
    /\ tm \in timeoutTimers
    /\ timeoutTimers' = timeoutTimers \ {tm}
    /\ exec' = IF exec[tm.id] = "pending"
               THEN [exec EXCEPT ![tm.id] = "rejected"]
               ELSE exec
    /\ closing' = IF Live(tm) THEN closing \cup {tm} ELSE closing
    /\ UNCHANGED <<task, nextId, taskQueue, runningTasks, maxConcurrentTasks,
                   retryTimers, reports, attempts, startedEv, completedEv,
                   failedEv>>
    /\ UNCHANGED <<startVars, wsLog, storeVars>>
    /\ UNCHANGED socketVars

\* the timeout timer of one attempt fires: child.kill(); reject(...).
\* Rejecting a promise that is already settled does nothing, and so does
\* killing a child that has exited; a child killed while it runs still
\* emits its 'close' later.
TimeoutFires(tm) ==
    /\ NoMicrotask
    /\ tm \in timeoutTimers
    /\ timeoutTimers' = timeoutTimers \ {tm}
    /\ exec' = IF Live(tm)
               THEN [exec EXCEPT ![tm.id] = "rejected"]
               ELSE exec
    /\ closing' = IF Live(tm) THEN closing \cup {tm} ELSE closing
    /\ UNCHANGED <<task, nextId, taskQueue, runningTasks, maxConcurrentTasks,
                   retryTimers, reports, attempts, startedEv, completedEv,
                   failedEv>>
    /\ UNCHANGED <<startVars, wsLog, storeVars>>
    /\ UNCHANGED socketVars

\* 'close' of a child the timeout killed: its reject(...) finds the promise
\* settled and does nothing
LateClose(c) ==
    /\ NoMicrotask
    /\ c \in closing
    /\ closing' = closing \ {c}
    /\ UNCHANGED <<task, nextId, taskQueue, runningTasks, maxConcurrentTasks,
                   exec, timeoutTimers, retryTimers, reports, attempts,
                   startedEv, completedEv, failedEv>>
    /\ UNCHANGED <<startVars, wsLog, storeVars, socketVars>>

\* faulty continuation: it leaves the promise resolved, so it runs again
TaskCompletedAgain(t) ==
    /\ exec[t] = "resolved"
    /\ completedEv' = [completedEv EXCEPT ![t] = @ + 1]
    /\ ProcessQueue(taskQueue, Delete(runningTasks, t), task, exec)
    /\ UNCHANGED <<task, nextId, maxConcurrentTasks, retryTimers, reports,
                   failedEv>>
    /\ UNCHANGED <<startVars, wsLog, storeVars>>
    /\ UNCHANGED <<socketVars, closing>>

\* try branch after the await, with the taskCompleted handler it triggers
TaskCompleted(t) ==
    /\ exec[t] = "resolved"
    /\ completedEv' = [completedEv EXCEPT ![t] = @ + 1]
    /\ ProcessQueue(taskQueue, Delete(runningTasks, t), task, [exec EXCEPT ![t] = "none"])
    /\ UNCHANGED <<task, nextId, maxConcurrentTasks, retryTimers, reports,
                   failedEv>>
    /\ UNCHANGED <<startVars, wsLog, storeVars>>
    /\ UNCHANGED <<socketVars, closing>>

\* faulty catch branch: the processQueue timer is not armed
RetryWithoutTimer(t) ==
    /\ exec[t] = "rejected"
    /\ ShouldRetry(task[t])
    /\ task' = [task EXCEPT ![t].retryCount = @ + 1]
    /\ taskQueue' = Unshift(taskQueue, t)
    /\ runningTasks' = Delete(runningTasks, t)
    /\ exec' = [exec EXCEPT ![t] = "none"]
    /\ UNCHANGED <<nextId, maxConcurrentTasks, timeoutTimers, retryTimers,
                   reports, attempts, startedEv, completedEv, failedEv>>
    /\ UNCHANGED <<startVars, wsLog, storeVars>>
    /\ UNCHANGED <<socketVars, closing>>

\* catch branch, retryCount < maxRetries
Retry(t) ==
    /\ exec[t] = "rejected"
    /\ ShouldRetry(task[t])
    /\ task' = [task EXCEPT ![t].retryCount = @ + 1]
    /\ taskQueue' = Unshift(taskQueue, t)
    /\ runningTasks' = Delete(runningTasks, t)
    /\ retryTimers' = Append(retryTimers, t)
    /\ exec' = [exec EXCEPT ![t] = "none"]
    /\ UNCHANGED <<nextId, maxConcurrentTasks, timeoutTimers, reports, attempts,
                   startedEv, completedEv, failedEv>>
    /\ UNCHANGED <<startVars, wsLog, storeVars>>
    /\ UNCHANGED <<socketVars, closing>>

\* catch branch, retries exhausted, with the taskFailed handler it triggers
TaskFailed(t) ==
    /\ exec[t] = "rejected"
    /\ ~ShouldRetry(task[t])
    /\ failedEv' = [failedEv EXCEPT ![t] = @ + 1]
    /\ ProcessQueue(taskQueue, Delete(runningTasks, t), task, [exec EXCEPT ![t] = "none"])
    /\ UNCHANGED <<task, nextId, maxConcurrentTasks, retryTimers, reports,
                   completedEv>>
    /\ UNCHANGED <<startVars, wsLog, storeVars>>
    /\ UNCHANGED <<socketVars, closing>>

\* setTimeout(() => this.processQueue(), 5000) fires; equal delays fire in
\* creation order
RetryTimerFires ==
    /\ NoMicrotask
    /\ retryTimers # <<>>
    /\ retryTimers' = Tail(retryTimers)
    /\ ProcessQueue(taskQueue, runningTasks, task, exec)
    /\ UNCHANGED <<task, nextId, maxConcurrentTasks, reports, completedEv,
                   failedEv>>
    /\ UNCHANGED <<startVars, wsLog, storeVars>>
    /\ UNCHANGED <<socketVars, closing>>

\* stopAllTasks()
StopAllTasks ==
    /\ NoMicrotask
    /\ taskQueue' = <<>>
    /\ runningTasks' = DeleteAll(runningTasks)
    /\ UNCHANGED <<task, nextId, maxConcurrentTasks, exec, timeoutTimers,
                   retryTimers, reports, attempts, startedEv, completedEv,
                   failedEv>>
    /\ UNCHANGED <<startVars, storeVars>>
    /\ UNCHANGED <<socketVars, closing>>

(* ---------------------------- report store ---------------------------- *)

\* decimal digits of n, as template literals print a number
RECURSIVE Digits(_)
Digits(n) == IF n < 10 THEN <<n>> ELSE Append(Digits(n \div 10), n % 10)

\* what follows the common prefix `<type>_` in the name `<type>_<stamp>.json`,
\* up to the first character after the digits
NameTail(stamp) == Append(Digits(stamp), Dot)

\* JavaScript `a > b` on strings: the first differing character decides
RECURSIVE GreaterChars(_, _)
GreaterChars(a, b) ==
    IF a = <<>> \/ b = <<>> THEN a # <<>>
    ELSE IF Head(a) # Head(b) THEN Head(a) > Head(b)
    ELSE GreaterChars(Tail(a), Tail(b))

\* `report > latestReports[type]` on two file names of one type
GreaterName(a, b) == GreaterChars(NameTail(a), NameTail(b))

\* the loop of getStatus over readdir's listing, for one type: best is
\* latestReports[type] so far (a set with at most one file)
RECURSIVE LatestReports(_, _, _)
LatestReports(listing, type, best) ==
    IF listing = {} THEN best
    ELSE LET report == CHOOSE f \in listing : TRUE
             rest   == listing \ {report} IN
         IF report.type # type THEN LatestReports(rest, type, best)
         ELSE IF best = {} \/ \E l \in best : GreaterName(report.stamp, l.stamp)
         THEN LatestReports(rest, type, {report})
         ELSE LatestReports(rest, type, best)

\* JavaScript `v || d`
Or(v, d) == IF v = Undefined \/ v = 0 THEN d ELSE v

\* JavaScript `v + 'ms'`: a string whatever v is, and never empty
PlusMs(v) == IF v = Undefined THEN UndefinedMs ELSE MsBase + v

\* the fields getStatus sets for one type from the first element of the
\* parsed report
StatusFields(type, data) ==
    IF type = "performance"
    THEN { <<"perf-score", Or(data.score, Placeholder)>>,
           <<"perf-load", Or(PlusMs(data.loadTime), Placeholder)>> }
    ELSE IF type = "security"
    THEN { <<"security-score", Or(data.score, Placeholder)>>,
           <<"security-vulns", Or(data.issues, 0)>> }
    ELSE {}

\* the second loop of getStatus: a report that does not parse is skipped
StatusOf(listing) ==
    LET types  == { f.type : f \in listing }
        fields == UNION { StatusFields(f.type, f.data) :
                          f \in { g \in UNION { LatestReports(listing, ty, {}) : ty \in types } :
                                    g.data.valid } }
    IN [k \in { kv[1] : kv \in fields } |-> (CHOOSE kv \in fields : kv[1] = k)[2]]

\* the clock advances
Tick ==
    /\ NoMicrotask
    /\ now < MaxStamp
    /\ now' = now + 1
    /\ UNCHANGED <<task, nextId, taskQueue, runningTasks, maxConcurrentTasks,
                   exec, timeoutTimers, retryTimers, reports, attempts,
                   startedEv, completedEv, failedEv, startVars, wsLog,
                   reportsDir, status, compiled>>
    /\ UNCHANGED <<socketVars, closing>>

\* a probe saves its report as `<type>_<Date.now()>.json`; writeFile
\* replaces a file of that name
ProbeWritesReport(type, data) ==
    /\ NoMicrotask
    /\ Cardinality({ f \in reportsDir : f.type # "comprehensive" }) < MaxFiles
    /\ reportsDir' = { f \in reportsDir : ~(f.type = type /\ f.stamp = now) }
                        \cup {[type |-> type, stamp |-> now, data |-> data]}
    /\ UNCHANGED <<task, nextId, taskQueue, runningTasks, maxConcurrentTasks,
                   exec, timeoutTimers, retryTimers, reports, attempts,
                   startedEv, completedEv, failedEv, startVars, wsLog, now,
                   status, compiled>>
    /\ UNCHANGED <<socketVars, closing>>

\* getStatus()
GetStatus ==
    /\ NoMicrotask
    /\ status' = StatusOf(reportsDir)
    /\ UNCHANGED <<task, nextId, taskQueue, runningTasks, maxConcurrentTasks,
                   exec, timeoutTimers, retryTimers, reports, attempts,
                   startedEv, completedEv, failedEv, startVars, wsLog,
                   reportsDir, now, compiled>>
    /\ UNCHANGED <<socketVars, closing>>

\* readdir's listing of the parsable files of one type, as entries
\* {file, timestamp}; no report has a top-level `timestamp`, so that
\* `data.timestamp || Date.now()` is the time of the call
RECURSIVE Entries(_, _, _)
Entries(listing, type, t) ==
    LET files == { f \in listing : f.type = type /\ f.data.valid } IN
    IF files = {} THEN <<>>
    ELSE LET last == CHOOSE f \in files :
                        \A g \in files \ {f} : GreaterName(f.stamp, g.stamp)
         IN Append(Entries(listing \ {last}, type, t),
                   [file |-> [type |-> type, stamp |-> last.stamp], timestamp |-> t])

\* reportData[type].sort((a, b) => b.timestamp - a.timestamp), stable
RECURSIVE InsertEntry(_, _)
InsertEntry(sorted, e) ==
    IF sorted = <<>> THEN <<e>>
    ELSE LET last == sorted[Len(sorted)] IN
         IF e.timestamp - last.timestamp > 0
         THEN Append(InsertEntry(SubSeq(sorted, 1, Len(sorted) - 1), e), last)
         ELSE Append(sorted, e)

RECURSIVE SortEntries(_)
SortEntries(es) ==
    IF es = <<>> THEN <<>>
    ELSE InsertEntry(SortEntries(SubSeq(es, 1, Len(es) - 1)), es[Len(es)])

\* reportData as generateReport builds it from the listing at time t
ReportData(listing, t) ==
    [ty \in { f.type : f \in { g \in listing : g.data.valid } } |->
        SortEntries(Entries(listing, ty, t))]

\* generateReport(): the result, and the file `comprehensive_<Date.now()>.json`
\* it saves into reportsDir
GenerateReport ==
    /\ NoMicrotask
    /\ Len(compiled) < MaxReportCalls
    /\ compiled' = Append(compiled,
                          [reports |-> ReportData(reportsDir, now),
                           seen    |-> { f \in reportsDir : f.type # "comprehensive" }])
    /\ reportsDir' = { f \in reportsDir : ~(f.type = "comprehensive" /\ f.stamp = now) }
                        \cup {[type  |-> "comprehensive",
                               stamp |-> now,
                               data  |-> Payload(Undefined, Undefined, Undefined)]}
    /\ UNCHANGED <<task, nextId, taskQueue, runningTasks, maxConcurrentTasks,
                   exec, timeoutTimers, retryTimers, reports, attempts,
                   startedEv, completedEv, failedEv, startVars, wsLog, now,
                   status>>
    /\ UNCHANGED <<socketVars, closing>>

(* ------------------------------ start-up ------------------------------- *)

\* an operator puts a configuration file in place before the first start
InstallConfig(file) ==
    /\ NoMicrotask
    /\ ~config.loaded
    /\ configFile = AbsentFile
    /\ configFile' = file
    /\ UNCHANGED <<task, nextId, taskQueue, runningTasks, maxConcurrentTasks,
                   exec, timeoutTimers, retryTimers, reports, attempts,
                   startedEv, completedEv, failedEv, config, intervals,
                   scheduler, wsLog, storeVars>>
    /\ UNCHANGED <<socketVars, closing>>

\* loadConfig(): the parsed file as it is, or, when reading or parsing
\* throws, the default configuration, which is then written to the file
LoadConfig ==
    /\ NoMicrotask
    /\ ~config.loaded
    /\ IF configFile.kind = "json"
       THEN /\ config' = [loaded        |-> TRUE,
                          hasScheduling |-> configFile.hasScheduling,
                          scheduling    |-> configFile.scheduling]
            /\ configFile' = configFile
       ELSE /\ config' = [loaded        |-> TRUE,
                          hasScheduling |-> TRUE,
                          scheduling    |-> DefaultScheduling]
            /\ configFile' = TableFile(DefaultScheduling)
    /\ UNCHANGED <<task, nextId, taskQueue, runningTasks, maxConcurrentTasks,
                   exec, timeoutTimers, retryTimers, reports, attempts,
                   startedEv, completedEv, failedEv, intervals, scheduler,
                   wsLog, storeVars>>
    /\ UNCHANGED <<socketVars, closing>>

\* faulty filter: the enabled flag is not looked at
EveryEntry(tbl) == DOMAIN tbl

\* the entries startScheduler arms an interval for
EnabledEntries(tbl) == { k \in DOMAIN tbl : tbl[k].enabled }

\* startScheduler(), called once init() has returned.
\* Object.entries(undefined) throws a TypeError.
StartScheduler ==
    /\ NoMicrotask
    /\ config.loaded
    /\ scheduler = "off"
    /\ IF config.hasScheduling
       THEN /\ intervals' = EnabledEntries(config.scheduling)
            /\ scheduler' = "started"
       ELSE /\ intervals' = intervals
            /\ scheduler' = "threw"
    /\ UNCHANGED <<task, nextId, taskQueue, runningTasks, maxConcurrentTasks,
                   exec, timeoutTimers, retryTimers, reports, attempts,
                   startedEv, completedEv, failedEv, configFile, config,
                   wsLog, storeVars>>
    /\ UNCHANGED <<socketVars, closing>>

\* tasks the interval callbacks have queued so far
Ticked == { t \in TaskIds : task[t].type \in DOMAIN FileScheduling }

\* the interval callback of one armed entry fires
IntervalFires(taskType) ==
    /\ taskType \in intervals
    /\ nextId <= MaxRequests
    /\ Cardinality(Ticked) < MaxTicks
    /\ QueueTask(taskType, [priority |-> SchedulerPriority])
    /\ UNCHANGED wsLog

\* stopAllTasks() called by the embedding program
StopAll ==
    /\ StopAllTasks
    /\ UNCHANGED wsLog

(* ----------------------------- dashboard ------------------------------- *)

\* a log frame, by its text and the task id it carries
LogFrame(text, id) == [text |-> text, id |-> id]

\* message {action: 'run', task}: the task is queued, then the frame
\* 'Started <task> task (<taskId>)' is sent
WsRun(taskType) ==
    /\ nextId <= MaxRequests
    /\ QueueTask(taskType, NoOptions)
    /\ wsLog' = wsLog \cup {LogFrame("Started", nextId)}

\* message {action: 'stop_all'}: stopAllTasks(), then the frame
\* 'All tasks stopped'
WsStopAll ==
    /\ StopAllTasks
    /\ wsLog' = wsLog \cup {LogFrame("All tasks stopped", 0)}

\* message {action: 'get_status'}: getStatus(), then a {type: 'status'}
\* frame that carries what it returned
WsGetStatus ==
    /\ NoMicrotask
    /\ status' = StatusOf(reportsDir)
    /\ wsStatus' = wsStatus \cup {StatusOf(reportsDir)}
    /\ UNCHANGED <<task, nextId, taskQueue, runningTasks, maxConcurrentTasks,
                   exec, timeoutTimers, retryTimers, reports, attempts,
                   startedEv, completedEv, failedEv, startVars, wsLog,
                   reportsDir, now, compiled, wsDropped, closing>>

\* the messages no branch of the handler takes: text that JSON.parse rejects
\* (the catch logs the error), and an object with another action
DroppedKinds == {"not JSON", "other action"}

\* faulty handler: a message it cannot read is answered like a run
WsDropAnswered(kind) ==
    /\ NoMicrotask
    /\ kind \in DroppedKinds
    /\ wsDropped' = wsDropped \cup {kind}
    /\ wsLog' = wsLog \cup {LogFrame("Started", 0)}
    /\ UNCHANGED <<task, nextId, taskQueue, runningTasks, maxConcurrentTasks,
                   exec, timeoutTimers, retryTimers, reports, attempts,
                   startedEv, completedEv, failedEv, startVars, storeVars,
                   wsStatus, closing>>

\* such a message arrives: nothing is done and nothing is sent
WsDrop(kind) ==
    /\ NoMicrotask
    /\ kind \in DroppedKinds
    /\ wsDropped' = wsDropped \cup {kind}
    /\ UNCHANGED <<task, nextId, taskQueue, runningTasks, maxConcurrentTasks,
                   exec, timeoutTimers, retryTimers, reports, attempts,
                   startedEv, completedEv, failedEv, startVars, wsLog,
                   storeVars, wsStatus, closing>>

\* what every specification below shares: the dispatcher's reaction to the
\* end of an execution and to its own retry timers
Dispatcher ==
    \/ \E t \in TaskIds, ok \in BOOLEAN : ChildClose(t, ok)
    \/ \E t \in TaskIds : TaskCompleted(t)
    \/ \E t \in TaskIds : Retry(t)
    \/ \E t \in TaskIds : TaskFailed(t)
    \/ RetryTimerFires

\* the orchestrator under its three callers: requests, scheduler, stop_all
Next ==
    \/ Enqueue
    \/ SchedulerTick
    \/ Dispatcher
    \/ StopAll

Spec == Init /\ [][Next]_vars

\* requests that differ in their retry ceiling
NextRetry ==
    \/ EnqueueRetrying
    \/ Dispatcher
    \/ StopAll

SpecRetry == Init /\ [][NextRetry]_vars

\* requests that differ in priority
NextOrder ==
    \/ EnqueuePrioritised
    \/ Dispatcher

SpecOrder == Init /\ [][NextOrder]_vars

\* the probes' report files next to the dispatcher's events
NextReports ==
    \/ Enqueue
    \/ \E t \in TaskIds : ChildWritesReport(t)
    \/ Dispatcher

SpecReports == Init /\ [][NextReports]_vars

\* executions that outlive their deadline
NextTimeout ==
    \/ Enqueue
    \/ \E tm \in timeoutTimers : TimeoutFires(tm)
    \/ \E c \in closing : LateClose(c)
    \/ Dispatcher

SpecTimeout == Init /\ [][NextTimeout]_vars

\* the start-up (init, then startScheduler) under every configuration file,
\* and the intervals it arms
NextStart ==
    \/ \E file \in ConfigFiles : InstallConfig(file)
    \/ LoadConfig
    \/ StartScheduler
    \/ \E ty \in DOMAIN FileScheduling : IntervalFires(ty)
    \/ Enqueue
    \/ Dispatcher

SpecStart == Init /\ [][NextStart]_vars

\* requests that give, or leave out, their options
NextOptions ==
    \/ EnqueueGiven
    \/ Dispatcher

SpecOptions == Init /\ [][NextOptions]_vars

\* a dashboard that also asks for the status and sends messages the handler
\* has no branch for
NextControl ==
    \/ \E ty \in RequestedTypes : WsRun(ty)
    \/ WsGetStatus
    \/ \E kind \in DroppedKinds : WsDrop(kind)
    \/ Dispatcher

SpecControl == Init /\ [][NextControl]_vars

\* requests that nobody stops
NextLive ==
    \/ Enqueue
    \/ Dispatcher

\* a spawned child exits sooner or later, the event loop runs the
\* continuation of a settled await, and an armed setTimeout fires
Fairness ==
    /\ \A t \in TaskIds :
          /\ WF_vars(\E ok \in BOOLEAN : ChildClose(t, ok))
          /\ WF_vars(TaskCompleted(t))
          /\ WF_vars(Retry(t))
          /\ WF_vars(TaskFailed(t))
    /\ WF_vars(RetryTimerFires)

SpecLive == Init /\ [][NextLive]_vars /\ Fairness

\* the orchestrator driven by a connected dashboard
NextDashboard ==
    \/ \E ty \in RequestedTypes : WsRun(ty)
    \/ WsStopAll
    \/ Dispatcher

SpecDashboard == Init /\ [][NextDashboard]_vars

\* probes filling the report store while the dashboard asks for the status
NextStatus ==
    \/ Tick
    \/ \E ty \in DOMAIN StatusPayloads :
          \E data \in StatusPayloads[ty] : ProbeWritesReport(ty, data)
    \/ GetStatus

SpecStatus == Init /\ [][NextStatus]_vars

\* probes filling the report store between calls of generateReport
NextReport ==
    \/ Tick
    \/ \E ty \in DOMAIN ReportPayloads :
          \E data \in ReportPayloads[ty] : ProbeWritesReport(ty, data)
    \/ GenerateReport

SpecReport == Init /\ [][NextReport]_vars

TypeOK ==
    /\ nextId \in 1..(MaxTasks + 1)
    /\ Range(taskQueue) \subseteq TaskIds
    /\ runningTasks \subseteq TaskIds
    /\ \A t \in TaskIds : exec[t] \in {"none", "pending", "resolved", "rejected"}

(* ------------------------------ claims --------------------------------- *)

\* t is handed to executeTask in this step
Dispatched(t) == attempts'[t] > attempts[t]

\* no execution attempt has failed so far
NoFailure ==
    \A t \in TaskIds :
        task[t].retryCount = 0 /\ failedEv[t] = 0 /\ exec[t] # "rejected"

\* C1: the Running Task Set never holds more than maxConcurrentTasks entries
C1_ConcurrencyBound == Cardinality(runningTasks) <= maxConcurrentTasks

\* every slot taken while a task waits
C1_Witness ==
    /\ Cardinality(runningTasks) = maxConcurrentTasks
    /\ Len(taskQueue) > 0

\* C2: a task is executed at most maxRetries + 1 times and gets at most one
\* taskFailed; when taskFailed is emitted it has been executed exactly
\* maxRetries + 1 times and its retryCount equals maxRetries
C2_RetryExhaustion ==
    \A t \in TaskIds :
        /\ attempts[t] <= task[t].maxRetries + 1
        /\ failedEv[t] <= 1
        /\ failedEv[t] = 1 =>
              /\ attempts[t] = task[t].maxRetries + 1
              /\ task[t].retryCount = task[t].maxRetries

C2_Witness ==
    \E t \in TaskIds :
        /\ task[t].maxRetries = 2
        /\ failedEv[t] = 1
        /\ attempts[t] = 3
        /\ task[t].retryCount = 2

\* C3: a task of a type the execution backend does not know is executed at
\* most once, keeps retryCount 0 and never re-enters the queue
C3_UnknownTypeNeverRetried ==
    \A t \in TaskIds :
        (task[t].type # "" /\ task[t].type \notin KnownTypes) =>
            /\ task[t].retryCount = 0
            /\ attempts[t] <= 1
            /\ attempts[t] = 1 => t \notin Range(taskQueue)

\* C4 as stated: with one slot and no failing task, tasks are dispatched in
\* ascending priority order, whatever the order of the enqueues
C4_DispatchOrderAscending ==
    [][(maxConcurrentTasks = 1 /\ NoFailure') =>
         \A t \in TaskIds : Dispatched(t) =>
            \A u \in TaskIds :
                attempts[u] > 0 => task[u].priority <= task'[t].priority]_vars

\* C4 as amended: with one slot and no failing task, every dispatch takes a
\* task whose priority value is minimal among the tasks waiting in the queue
\* at that moment (a task enqueued while the orchestrator is idle is
\* dispatched at once, whatever its priority)
C4_DispatchTakesMinimum ==
    [][(maxConcurrentTasks = 1 /\ NoFailure') =>
         \A t \in TaskIds : Dispatched(t) =>
            \A i \in 1..Len(taskQueue') :
                task'[t].priority <= task'[taskQueue'[i]].priority]_vars

\* priorities 5, 1, 3 enqueued in that order: 5 is running, 1 and 3 wait
C4_Witness ==
    /\ maxConcurrentTasks = 1
    /\ NoFailure
    /\ task[1].priority = 5 /\ task[2].priority = 1 /\ task[3].priority = 3
    /\ runningTasks = {1}
    /\ taskQueue = <<2, 3>>

C6_RetryFirst ==
    [][\A b \in TaskIds :
         (Dispatched(b) /\ task'[b].retryCount = 0) =>
            \A i \in 1..Len(taskQueue') :
                LET a == taskQueue'[i] IN
                task'[a].priority = task'[b].priority => task'[a].retryCount = 0]_vars

\* a retried task runs again while a task enqueued before its re-insertion
\* and one enqueued after it, both of its priority, wait
C6_Witness ==
    /\ task[1].retryCount = 1 /\ attempts[1] = 2 /\ exec[1] = "pending"
    /\ task[2].priority = task[1].priority /\ task[2].retryCount = 0
    /\ task[3].priority = task[1].priority /\ task[3].retryCount = 0
    /\ taskQueue = <<2, 3>>

\* C7: retryCount never exceeds maxRetries, and a task that got taskFailed is
\* in neither the queue nor the running set, nor is it executing
C7_RetryCeiling ==
    \A t \in TaskIds :
        /\ task[t].retryCount <= task[t].maxRetries
        /\ failedEv[t] > 0 =>
              /\ t \notin Range(taskQueue)
              /\ t \notin runningTasks
              /\ exec[t] = "none"

C7_Witness ==
    \E t \in TaskIds :
        /\ failedEv[t] = 1
        /\ task[t].maxRetries >= 1
        /\ task[t].retryCount = task[t].maxRetries
        /\ \E u \in TaskIds : u # t /\ exec[u] = "pending"

\* C8: a task that failed and awaits its retry is not dispatched while the
\* 5 s timer armed by that failure is still pending
C8_BackoffRespected ==
    [][\A t \in TaskIds :
         (Dispatched(t) /\ task[t].retryCount > 0) =>
            t \notin Range(retryTimers')]_vars

\* C9: a stopAllTasks call leaves the queue and the running set empty and
\* touches neither the executions in flight nor any timer
C9_StopAllClears ==
    [][StopAllTasks =>
         /\ taskQueue' = <<>>
         /\ runningTasks' = {}
         /\ exec' = exec
         /\ timeoutTimers' = timeoutTimers
         /\ retryTimers' = retryTimers]_vars

\* after a stop: nothing queued, nothing tracked, an execution still in flight
C9_Witness ==
    /\ taskQueue = <<>>
    /\ runningTasks = {}
    /\ \E t \in TaskIds : exec[t] = "pending"
    /\ \E t \in TaskIds : task[t].type # "" /\ attempts[t] = 0

\* C10: every task that got taskCompleted or taskFailed has a record in the
\* persisted storage
C10_TerminalOutcomePersisted ==
    \A t \in TaskIds :
        (completedEv[t] > 0 \/ failedEv[t] > 0) => \E f \in reports : f.by = t

\* the report of one type with the greatest timestamp
Newest(listing, type) ==
    CHOOSE f \in listing :
        f.type = type /\ \A g \in listing : g.type = type => g.stamp <= f.stamp

\* C11: for every type with reports in the store, getStatus returns that
\* type's fields as the report with the greatest timestamp gives them (none
\* when that report does not parse)
C11_StatusFromLatest ==
    [][GetStatus =>
         \A ty \in DOMAIN StatusPayloads :
            (\E f \in reportsDir : f.type = ty) =>
                LET newest == Newest(reportsDir, ty) IN
                \A kv \in StatusFields(ty, newest.data) :
                    IF newest.data.valid
                    THEN kv[1] \in DOMAIN status' /\ status'[kv[1]] = kv[2]
                    ELSE kv[1] \notin DOMAIN status']_vars

\* types present and, per type, the files of the entries in their order
Content(reportData) ==
    [ty \in DOMAIN reportData |->
        [k \in 1..Len(reportData[ty]) |-> reportData[ty][k].file]]

\* C12: two consecutive generateReport calls between which no probe report
\* was written return the same types and, per type, the same files in the
\* same order
C12_ReportIdempotent ==
    \A i \in 1..(Len(compiled) - 1) :
        compiled[i].seen = compiled[i + 1].seen =>
            Content(compiled[i].reports) = Content(compiled[i + 1].reports)

\* C13: in the status getStatus returns, a field its latest report lacks is
\* '--' (0 for the number of vulnerabilities), and the fields of a type are
\* there whenever that type's latest report parses, whatever the reports of
\* the other types are
C13_PlaceholderForAbsentField ==
    [][GetStatus =>
         \A ty \in DOMAIN StatusPayloads :
            \A f \in LatestReports(reportsDir, ty, {}) :
                f.data.valid =>
                    /\ \A kv \in StatusFields(ty, f.data) : kv[1] \in DOMAIN status'
                    /\ ty = "performance" =>
                          /\ f.data.score = Undefined => status'["perf-score"] = Placeholder
                          /\ f.data.loadTime = Undefined => status'["perf-load"] = Placeholder
                    /\ ty = "security" =>
                          /\ f.data.score = Undefined => status'["security-score"] = Placeholder
                          /\ f.data.issues = Undefined => status'["security-vulns"] = 0]_vars

C15_SchedulerUsesEntryPriority ==
    \A t \in Ticked :
        LET entry == config.scheduling[task[t].type] IN
        "priority" \in DOMAIN entry => task[t].priority = entry.priority

\* C16: loadConfig on a file that is absent, is not JSON or has no schedule
\* table ends with the default schedule table, and startScheduler then
\* arms its intervals
C16_FallbackToDefaults ==
    [][/\ (LoadConfig /\ ~configFile.hasScheduling) =>
             config'.hasScheduling /\ config'.scheduling = DefaultScheduling
       /\ StartScheduler => scheduler' = "started"]_vars

\* the timer of t's current attempt
TimerOf(t, att) == [id |-> t, attempt |-> att[t]]

\* the timer of t's attempt fires in this step while the attempt is in flight
TimedOut(t) ==
    /\ exec[t] = "pending"
    /\ TimerOf(t, attempts) \in timeoutTimers \ timeoutTimers'

\* C17: an attempt in flight when its timer fires becomes a failed attempt;
\* a failed attempt is put back at the head of the queue with retryCount + 1
\* while retryCount < maxRetries and gets taskFailed otherwise, whatever made
\* it fail; an attempt is in flight only while its timer is pending
C17_TimeoutIsFailure ==
    [][\A t \in TaskIds :
         /\ TimedOut(t) => exec'[t] = "rejected"
         /\ exec'[t] = "pending" => TimerOf(t, attempts') \in timeoutTimers'
         /\ (exec[t] = "rejected" /\ exec'[t] # "rejected") =>
               IF task[t].retryCount < task[t].maxRetries
               THEN /\ task'[t].retryCount = task[t].retryCount + 1
                    /\ Head(taskQueue') = t
                    /\ failedEv'[t] = failedEv[t]
               ELSE /\ task'[t].retryCount = task[t].retryCount
                    /\ t \notin Range(taskQueue')
                    /\ failedEv'[t] = failedEv[t] + 1]_vars

\* the last attempt the retry ceiling allows has just timed out
C17_Witness ==
    \E t \in TaskIds :
        /\ task[t].type \in KnownTypes
        /\ exec[t] = "rejected"
        /\ TimerOf(t, attempts) \notin timeoutTimers
        /\ attempts[t] = 2
        /\ task[t].retryCount = task[t].maxRetries

\* C18: the dashboard has been sent a log frame for every transition of every
\* task: queued and started (one frame naming the task is taken for both),
\* retrying, completed, failed
C18_TransitionsLogged ==
    \A t \in TaskIds :
        /\ task[t].type # "" => \E f \in wsLog : f.id = t
        /\ task[t].retryCount > 0 => LogFrame("Retrying", t) \in wsLog
        /\ completedEv[t] > 0 => LogFrame("Completed", t) \in wsLog
        /\ failedEv[t] > 0 => LogFrame("Failed", t) \in wsLog

\* the value options gives for key, d when it gives none
Given(options, key, d) == IF key \in DOMAIN options THEN options[key] ELSE d

\* C19: a descriptor's priority and maxRetries are the values its options
\* give, 0 included, and 5 and 3 when options gives none; a task queued with
\* maxRetries 0 is executed at most once and never retried
C19_OptionsHonoured ==
    \A t \in TaskIds :
        task[t].type # "" =>
            /\ task[t].priority = Given(task[t].options, "priority", DefaultPriority)
            /\ task[t].maxRetries = Given(task[t].options, "maxRetries", DefaultMaxRetries)
            /\ Given(task[t].options, "maxRetries", DefaultMaxRetries) = 0 =>
                  attempts[t] <= 1 /\ task[t].retryCount = 0

\* q is in ascending order of priority
Sorted(tk, q) ==
    \A i, j \in 1..Len(q) : i < j => tk[q[i]].priority <= tk[q[j]].priority

\* C20: the queue is in ascending order of priority, so that its head, the
\* task the next dispatch takes, has a minimal priority value
C20_QueueSorted == Sorted(task, taskQueue)

\* t gets its taskCompleted or its taskFailed in this step
Terminal(t) == completedEv'[t] > completedEv[t] \/ failedEv'[t] > failedEv[t]

InFlight == {t \in TaskIds : exec[t] = "pending"}

\* C22: at most maxConcurrentTasks executions are in flight, also after
\* stopAllTasks calls followed by further enqueues
C22_InFlightBound == Cardinality(InFlight) <= maxConcurrentTasks

\* t was in the Running Task Set when stopAllTasks emptied it, and its
\* attempt has not yet been handled by processQueue
Stopped(t) == exec[t] # "none" /\ t \notin runningTasks

\* C23: a task that stopAllTasks removed while it was in flight is never put
\* into the queue or the Running Task Set again and never executed again
C23_StoppedStaysOut ==
    [][\A t \in TaskIds :
          Stopped(t) =>
              /\ t \notin Range(taskQueue')
              /\ t \notin runningTasks'
              /\ ~Dispatched(t)]_vars

\* C24: every task the scheduler enqueues has a type executeTask has a case
\* for, so that none of them is rejected as an unknown task type
C24_SchedulerTypesKnown == \A t \in Ticked : task[t].type \in KnownTypes

\* C25: no task id is both in the queue and in the Running Task Set, none is
\* in the queue twice, and a task is handed to executeTask only when no
\* earlier attempt of it is in flight or awaits its continuation
C25_OnePlacePerTask ==
    /\ [](/\ Range(taskQueue) \cap runningTasks = {}
          /\ \A i, j \in 1..Len(taskQueue) :
                taskQueue[i] = taskQueue[j] => i = j)
    /\ [][\A t \in TaskIds : Dispatched(t) => exec[t] = "none"]_vars

\* a task that failed once waits in the queue for its retry while another
\* task is running
C25_Witness ==
    \E t, u \in TaskIds :
        /\ task[t].retryCount = 1
        /\ taskQueue = <<t>>
        /\ runningTasks = {u}
        /\ exec[u] = "pending"

\* C26: a task never has more than one terminal event, taskCompleted and
\* taskFailed taken together, and a task that has one is never handed to
\* executeTask again; stopAllTasks calls included
C26_OneTerminalEvent ==
    [][\A t \in TaskIds :
          /\ completedEv'[t] + failedEv'[t] <= 1
          /\ Dispatched(t) => completedEv[t] + failedEv[t] = 0]_vars

\* a task has failed for good after a retry although stopAllTasks had been
\* called in between: the call took another task out of the queue before it
\* was ever started
C26_Witness ==
    \E t, u \in TaskIds :
        /\ failedEv[t] = 1 /\ attempts[t] = 2
        /\ task[u].type # "" /\ attempts[u] = 0 /\ taskQueue = <<>>

\* C27: when nobody calls stopAllTasks, children exit and timers fire, every
\* queued task gets its taskCompleted or its taskFailed in the end, and a
\* task never waits in the queue while no attempt is in flight or being
\* handled and no retry timer is pending
C27_EveryTaskEnds ==
    /\ [](taskQueue # <<>> =>
              \/ \E t \in TaskIds : exec[t] # "none"
              \/ retryTimers # <<>>)
    /\ \A t \in TaskIds :
          (task[t].type # "") ~> (completedEv[t] + failedEv[t] = 1)

\* one slot: two tasks wait, one of them for its retry, and only the retry
\* timer is left to start them
C27_Witness ==
    /\ maxConcurrentTasks = 1
    /\ Len(taskQueue) = 2
    /\ \A t \in TaskIds : exec[t] = "none"
    /\ retryTimers # <<>>

\* C29: when nobody calls stopAllTasks, a non-empty queue means that the
\* Running Task Set holds maxConcurrentTasks tasks
C29_NoIdleSlotWhileWaiting ==
    Len(taskQueue) > 0 => Cardinality(runningTasks) = maxConcurrentTasks

\* what the dispatcher holds of its tasks
dispatcherVars ==
    <<task, taskQueue, runningTasks, exec, retryTimers, attempts, startedEv,
      completedEv, failedEv>>

\* C30: every attempt of a task has given the dispatcher one outcome
\* (taskCompleted, a retry or taskFailed) or is still to give its one; a
\* timeout timer that fires when its attempt has ended, and the 'close' of a
\* child that the timeout had killed, change nothing the dispatcher holds and
\* emit nothing
C30_OneOutcomePerAttempt ==
    /\ [](\A t \in TaskIds :
             attempts[t] = completedEv[t] + failedEv[t] + task[t].retryCount
                           + (IF exec[t] = "none" THEN 0 ELSE 1))
    /\ [][/\ \A tm \in timeoutTimers \ timeoutTimers' :
                ~Live(tm) => UNCHANGED dispatcherVars
          /\ closing \ closing' # {} => UNCHANGED dispatcherVars]_vars

\* a task completed on its first attempt, the timer of that attempt has
\* fired since, and no 'close' is outstanding
C30_Witness ==
    \E t \in TaskIds :
        /\ completedEv[t] = 1 /\ attempts[t] = 1
        /\ \A tm \in timeoutTimers : tm.id # t
        /\ closing = {}
        /\ \E u \in TaskIds : u # t /\ task[u].retryCount = 1

\* C28: a message that is not JSON, or whose action is not run, stop_all or
\* get_status, changes neither the queue, the Running Task Set nor any
\* retryCount, and no frame is sent in reply; a get_status message changes
\* neither the queue nor the Running Task Set
C28_UnknownMessagesIgnored ==
    [][/\ wsDropped' # wsDropped =>
              /\ UNCHANGED <<taskQueue, runningTasks, wsLog, wsStatus>>
              /\ \A t \in TaskIds : task'[t].retryCount = task[t].retryCount
       /\ wsStatus' # wsStatus => UNCHANGED <<taskQueue, runningTasks>>]_vars

\* messages of both kinds have been dropped and a status frame has been
\* sent while one task was running and another waited for its retry
C28_Witness ==
    /\ wsDropped = DroppedKinds
    /\ wsStatus # {}
    /\ runningTasks # {}
    /\ \E t \in Range(taskQueue) : task[t].retryCount > 0

====
